---------------------------- MODULE Spec2Model ----------------------------
(***************************************************************************)
(* Dark Pool Flow Analyzer (src/app.py): the fetch / parse / reconcile /   *)
(* aggregate / rank pipeline and the Streamlit script that drives it.      *)
(*                                                                         *)
(* Text is modelled as sequences of one-character strings, a data frame    *)
(* as the sequence of its rows (records), a float64 as an exact rational   *)
(* or one of NaN, +inf, -inf.  At the volumes the model reaches no float64 *)
(* rounding can change a comparison, so the rationals are exact.           *)
(***************************************************************************)
EXTENDS Integers, Sequences, FiniteSets, TLC

VARIABLES
    responses,          \* what the CDN answers for each of the 4 files of one date
    fetch_date,         \* the date fetch_daily_components is called for
    fetch_done,         \* whether the call has returned
    daily_frames,       \* the frames the call collected (app.py:47)
    daily_total,        \* what the call returned (app.py:80/82)
    date_range,         \* sidebar date_input (a tuple of 1 or 2 dates)
    vol_threshold,      \* sidebar number_input
    pc,                 \* position of the script: "idle", "loop", "store", "render"
    clicked,            \* whether this script execution had the button pressed
    current_date,       \* loop variable (app.py:88)
    day_count,          \* loop counter (app.py:93)
    all_daily_totals,   \* frames appended by the loop (app.py:87)
    fetch_calls,        \* the date_str of every fetch_daily_components call of this run
    session_state,      \* st.session_state: keys full_data, agg_data, raw_agg
    view                \* what this script execution rendered below app.py:131

vars == <<responses, fetch_date, fetch_done, daily_frames, daily_total,
          date_range, vol_threshold, pc, clicked, current_date, day_count,
          all_daily_totals, fetch_calls, session_state, view>>

fetchVars == <<responses, fetch_date, fetch_done, daily_frames, daily_total>>

runVars == <<date_range, vol_threshold, pc, clicked, current_date, day_count,
             all_daily_totals, fetch_calls, session_state, view>>

---------------------------------------------------------------------------
(* Bounds *)

\* dates are day numbers 0 .. MaxDay-1 counted from BaseDate
MaxDay == 4

\* data lines in one facility file of the parser specification
MaxLines == 2

---------------------------------------------------------------------------
(* Sequences *)

Range(s) == {s[i] : i \in 1..Len(s)}

RECURSIVE Flatten(_)
Flatten(ss) == IF ss = <<>> THEN <<>> ELSE Head(ss) \o Flatten(Tail(ss))

RECURSIVE SumSeq(_)
SumSeq(s) == IF s = <<>> THEN 0 ELSE Head(s) + SumSeq(Tail(s))

Perms(n) ==
    {p \in [1..n -> 1..n] : \A i, j \in 1..n : i # j => p[i] # p[j]}

Permute(s, p) == [i \in 1..Len(s) |-> s[p[i]]]

---------------------------------------------------------------------------
(* Text *)

Digits == <<"0", "1", "2", "3", "4", "5", "6", "7", "8", "9">>

IsDigit(c) == \E i \in 1..10 : Digits[i] = c

DigitVal(c) == (CHOOSE i \in 1..10 : Digits[i] = c) - 1

DigitChar(v) == Digits[v + 1]

\* code point order of the characters a formatted date holds
CharCode(c) == IF c = "-" THEN 45 ELSE 48 + DigitVal(c)

\* Python's str < str
RECURSIVE StrLess(_, _)
StrLess(a, b) ==
    IF b = <<>> THEN FALSE
    ELSE IF a = <<>> THEN TRUE
    ELSE IF CharCode(Head(a)) # CharCode(Head(b))
         THEN CharCode(Head(a)) < CharCode(Head(b))
         ELSE StrLess(Tail(a), Tail(b))

\* the symbols of the model in Python's ascending str order
SymbolOrder == <<"NA", "SH", "SSO", "XYZ">>

Symbols == Range(SymbolOrder)

SymbolRank(s) == CHOOSE i \in 1..Len(SymbolOrder) : SymbolOrder[i] = s

SymbolLess(a, b) == SymbolRank(a) < SymbolRank(b)

---------------------------------------------------------------------------
(* Calendar: datetime.date over the window BaseDate .. BaseDate + 6 *)

\* day 0 is Friday 2024-05-31; days 1.. are 2024-06-01 ..
BaseDate == [year |-> 2024, month |-> 5, day |-> 31]

DateOf(n) ==
    IF n = 0 THEN BaseDate ELSE [year |-> 2024, month |-> 6, day |-> n]

\* date.weekday(): Monday is 0, Saturday 5, Sunday 6
weekday(n) == (4 + n) % 7

Pad2(v) == <<DigitChar(v \div 10), DigitChar(v % 10)>>

Pad4(v) == Pad2(v \div 100) \o Pad2(v % 100)

\* current_date.strftime("%Y%m%d")
strftime_compact(n) ==
    LET d == DateOf(n) IN Pad4(d.year) \o Pad2(d.month) \o Pad2(d.day)

RECURSIVE ParseNat(_)
ParseNat(cs) ==
    IF cs = <<>> THEN 0
    ELSE 10 * ParseNat(SubSeq(cs, 1, Len(cs) - 1)) + DigitVal(cs[Len(cs)])

\* pd.to_datetime(date_str, format='%Y%m%d')
to_datetime(date_str) ==
    [year  |-> ParseNat(SubSeq(date_str, 1, 4)),
     month |-> ParseNat(SubSeq(date_str, 5, 6)),
     day   |-> ParseNat(SubSeq(date_str, 7, 8))]

\* Timestamp.strftime('%Y-%m-%d')
strftime_dashed(ts) ==
    Pad4(ts.year) \o <<"-">> \o Pad2(ts.month) \o <<"-">> \o Pad2(ts.day)

DateColumn(date_str) == strftime_dashed(to_datetime(date_str))

---------------------------------------------------------------------------
(* Record Parser: app.py:55-68 *)

ColShortVolume == <<"S", "h", "o", "r", "t", "V", "o", "l", "u", "m", "e">>

ColTotalVolume == <<"T", "o", "t", "a", "l", "V", "o", "l", "u", "m", "e">>

\* the header row of a facility file (the three columns the code reads)
HeaderLine ==
    [Symbol |-> "Symbol", ShortVolume |-> ColShortVolume,
     TotalVolume |-> ColTotalVolume]

\* read_csv's default na_values that a Symbol cell of the model can hold
NaValues == {"", "NA"}

\* pd.read_csv(StringIO(text), sep='|'): the first line names the columns
read_csv(text) == [columns |-> Head(text), rows |-> Tail(text)]

\* pd.read_csv(..., names=[...]): every line is data
read_csv_names(text) == [columns |-> HeaderLine, rows |-> text]

\* pd.to_numeric(cell, errors='coerce'): an optional sign and digits, else NaN
IsNumeric(cell) ==
    LET body == IF cell # <<>> /\ Head(cell) = "-" THEN Tail(cell) ELSE cell
    IN  body # <<>> /\ \A i \in 1..Len(body) : IsDigit(body[i])

to_numeric(cell) ==
    IF ~IsNumeric(cell) THEN [nan |-> TRUE, value |-> 0]
    ELSE IF Head(cell) = "-"
         THEN [nan |-> FALSE, value |-> 0 - ParseNat(Tail(cell))]
         ELSE [nan |-> FALSE, value |-> ParseNat(cell)]

\* .fillna(0)
fillna0(v) == IF v.nan THEN 0 ELSE v.value

NumericColumn(cell) == fillna0(to_numeric(cell))

\* app.py:61-68 on one row
NormalizeRow(line) ==
    [Symbol      |-> line.Symbol,
     ShortVolume |-> NumericColumn(line.ShortVolume),
     TotalVolume |-> NumericColumn(line.TotalVolume)]

HasSymbol(line) == line.Symbol \notin NaValues

\* app.py:55-68: the frame appended to daily_frames
ParseText(text) ==
    LET first == read_csv(text)
        df    == IF first.columns.Symbol = "Symbol" THEN first
                 ELSE read_csv_names(text)
        kept  == SelectSeq(df.rows, HasSymbol)
    IN  [i \in 1..Len(kept) |-> NormalizeRow(kept[i])]

\* app.py:51-70: whether the try block reaches daily_frames.append
\* (requests raising, a non-200 status and read_csv's EmptyDataError do not)
Delivers(resp) ==
    /\ ~resp.raised
    /\ resp.status_code = 200
    /\ resp.text # <<>>

---------------------------------------------------------------------------
(* Daily Reconciler: app.py:33-82 *)

Facilities == <<"CNMS", "FNYX", "FNSQ", "FNQC">>

SymbolsIn(rows) == {rows[i].Symbol : i \in 1..Len(rows)}

SortedSymbols(S) ==
    LET n == Cardinality(S)
    IN  CHOOSE s \in [1..n -> S] :
            /\ \A i, j \in 1..n : i < j => SymbolLess(s[i], s[j])

\* the 'sum' of column col over the rows of group sym
ColumnSum(rows, sym, col) ==
    LET mine == SelectSeq(rows, LAMBDA r : r.Symbol = sym)
    IN  SumSeq([i \in 1..Len(mine) |-> mine[i][col]])

\* groupby('Symbol').agg({'ShortVolume':'sum','TotalVolume':'sum'}).reset_index()
GroupSum(rows) ==
    LET keys == SortedSymbols(SymbolsIn(rows))
    IN  [i \in 1..Len(keys) |->
            [Symbol      |-> keys[i],
             ShortVolume |-> ColumnSum(rows, keys[i], "ShortVolume"),
             TotalVolume |-> ColumnSum(rows, keys[i], "TotalVolume")]]

\* CollectFrames with a failure ending the loop (break instead of continue)
RECURSIVE CollectFrames_StopAtFailure(_, _)
CollectFrames_StopAtFailure(resps, i) ==
    IF i > Len(Facilities) THEN <<>>
    ELSE LET resp == resps[Facilities[i]]
         IN  IF Delivers(resp)
             THEN <<ParseText(resp.text)>> \o CollectFrames_StopAtFailure(resps, i + 1)
             ELSE <<>>

\* app.py:47-70: the loop over the four components
RECURSIVE CollectFrames(_, _)
CollectFrames(resps, i) ==
    IF i > Len(Facilities) THEN <<>>
    ELSE LET resp == resps[Facilities[i]]
         IN  (IF Delivers(resp) THEN <<ParseText(resp.text)>> ELSE <<>>)
             \o CollectFrames(resps, i + 1)

\* a returned data frame, or Python's None
Frame(rows) == [none |-> FALSE, rows |-> rows]

None == [none |-> TRUE, rows |-> <<>>]

\* app.py:72-82
CombineFrames(frames, date_str) ==
    IF frames # <<>>
    THEN LET total == GroupSum(Flatten(frames))
         IN  Frame([i \in 1..Len(total) |->
                [Symbol      |-> total[i].Symbol,
                 ShortVolume |-> total[i].ShortVolume,
                 TotalVolume |-> total[i].TotalVolume,
                 Date        |-> DateColumn(date_str)]])
    ELSE None

fetch_daily_components(resps, date_str) ==
    CombineFrames(CollectFrames(resps, 1), date_str)

---------------------------------------------------------------------------
(* float64 values: an exact rational n/d with d > 0, or NaN, +inf, -inf *)

Fin(n, d) == [k |-> "fin", n |-> n, d |-> d]

NaN == [k |-> "nan", n |-> 0, d |-> 1]

PosInf == [k |-> "inf", n |-> 1, d |-> 1]

NegInf == [k |-> "inf", n |-> 0 - 1, d |-> 1]

IsFinite(x) == x.k = "fin"

\* IEEE 754 division of two finite values
FloatDiv(x, y) ==
    IF y.n = 0
    THEN IF x.n = 0 THEN NaN ELSE IF x.n > 0 THEN PosInf ELSE NegInf
    ELSE IF y.n > 0 THEN Fin(x.n * y.d, x.d * y.n)
         ELSE Fin(0 - (x.n * y.d), 0 - (x.d * y.n))

\* x <= y for values that are not NaN
FloatLE(x, y) ==
    IF x.k = "inf" THEN x.n < 0 \/ (y.k = "inf" /\ y.n > 0)
    ELSE IF y.k = "inf" THEN y.n > 0
    ELSE x.n * y.d <= y.n * x.d

\* x > y as pandas evaluates it: False when either side is NaN
FloatGT(x, y) == x.k # "nan" /\ y.k # "nan" /\ ~FloatLE(x, y)

FloatEq(x, y) == x.k # "nan" /\ y.k # "nan" /\ FloatLE(x, y) /\ FloatLE(y, x)

---------------------------------------------------------------------------
(* Metrics Calculator: app.py:117-121, 126-128, 186-188 *)

\* the literal 0.0001
Epsilon == Fin(1, 10000)

\* the literal 100.0
InfSentinel == Fin(100, 1)

\* the literal 0.60
PressureCut == Fin(3, 5)

\* ReplaceZero without the replacement
ReplaceZero_Missing(sell) == Fin(sell, 1)

\* Series.replace(0, 0.0001) on the Sell Vol column
ReplaceZero(sell) == IF sell = 0 THEN Epsilon ELSE Fin(sell, 1)

\* .replace([float('inf')], 100.0)
ReplaceInf(x) == IF x = PosInf THEN InfSentinel ELSE x

\* .fillna(0)
FillNa(x) == IF x = NaN THEN Fin(0, 1) ELSE x

\* app.py:119 and app.py:128
SummaryRatio(buy, sell) ==
    FillNa(ReplaceInf(FloatDiv(Fin(buy, 1), ReplaceZero(sell))))

\* app.py:188 (no fillna)
SeriesRatio(short, sell) ==
    ReplaceInf(FloatDiv(Fin(short, 1), ReplaceZero(sell)))

\* app.py:120-121
Pct(part, total) == FloatDiv(Fin(part, 1), Fin(total, 1))

\* app.py:126-128: one row of raw_agg
RawMetricsRow(r) ==
    [Symbol      |-> r.Symbol,
     ShortVolume |-> r.ShortVolume,
     TotalVolume |-> r.TotalVolume,
     BuyVol      |-> r.ShortVolume,
     SellVol     |-> r.TotalVolume - r.ShortVolume,
     Ratio       |-> SummaryRatio(r.ShortVolume, r.TotalVolume - r.ShortVolume)]

\* app.py:117-121: one row of filtered_agg
FilteredMetricsRow(r) ==
    [Symbol      |-> r.Symbol,
     ShortVolume |-> r.ShortVolume,
     TotalVolume |-> r.TotalVolume,
     BuyVol      |-> r.ShortVolume,
     SellVol     |-> r.TotalVolume - r.ShortVolume,
     Ratio       |-> SummaryRatio(r.ShortVolume, r.TotalVolume - r.ShortVolume),
     BuyPct      |-> Pct(r.ShortVolume, r.TotalVolume),
     SellPct     |-> Pct(r.TotalVolume - r.ShortVolume, r.TotalVolume)]

\* app.py:186-188: one row of symbol_data
SeriesRow(r) ==
    [Symbol      |-> r.Symbol,
     ShortVolume |-> r.ShortVolume,
     TotalVolume |-> r.TotalVolume,
     Date        |-> r.Date,
     Buy         |-> r.ShortVolume,
     Sell        |-> r.TotalVolume - r.ShortVolume,
     Ratio       |-> SeriesRatio(r.ShortVolume, r.TotalVolume - r.ShortVolume)]

---------------------------------------------------------------------------
(* Range Aggregator and threshold filter: app.py:107-129 *)

\* app.py:112
RangeAggregate(full_data) == GroupSum(full_data)

\* AboveThreshold keeping every row
AboveThreshold_Unfiltered(agg, threshold) == agg

\* app.py:116
AboveThreshold(agg, threshold) ==
    SelectSeq(agg, LAMBDA r : r.TotalVolume >= threshold)

\* app.py:116-121
FilteredAgg(agg, threshold) ==
    LET kept == AboveThreshold(agg, threshold)
    IN  [i \in 1..Len(kept) |-> FilteredMetricsRow(kept[i])]

\* app.py:126-128
RawAgg(agg) == [i \in 1..Len(agg) |-> RawMetricsRow(agg[i])]

Unset == [set |-> FALSE, rows |-> <<>>]

Stored(rows) == [set |-> TRUE, rows |-> rows]

EmptySession == [full_data |-> Unset, agg_data |-> Unset, raw_agg |-> Unset]

\* StoreResults guarded by the number of rows instead of the number of frames
StoreResults_OnlyWithRows(session, totals, threshold) ==
    LET full_data == Flatten([i \in 1..Len(totals) |-> totals[i].rows])
        agg       == GroupSum(full_data)
    IN  IF full_data # <<>>
        THEN [full_data |-> Stored(full_data),
              agg_data  |-> Stored(FilteredAgg(agg, threshold)),
              raw_agg   |-> Stored(RawAgg(agg))]
        ELSE session

\* app.py:107-129: the three session_state assignments of one run
StoreResults(session, totals, threshold) ==
    IF totals # <<>>
    THEN LET full_data == Flatten([i \in 1..Len(totals) |-> totals[i].rows])
             agg       == RangeAggregate(full_data)
         IN  [full_data |-> Stored(full_data),
              agg_data  |-> Stored(FilteredAgg(agg, threshold)),
              raw_agg   |-> Stored(RawAgg(agg))]
    ELSE session

---------------------------------------------------------------------------
(* Ranker and Symbol Series Extractor: app.py:131-188 *)

\* DataFrame.head(15)
TopN == 15

head(rows, n) == SubSeq(rows, 1, IF Len(rows) < n THEN Len(rows) ELSE n)

\* key(a) <= key(b) on column by: an integer column, the float column
\* 'Buy/Sell Ratio' or the str column 'Date'
KeyLE(a, b, by) ==
    CASE by = "Date"  -> ~StrLess(b.Date, a.Date)
      [] by = "Ratio" -> FloatLE(a.Ratio, b.Ratio)
      [] OTHER        -> a[by] <= b[by]

KeyIsNaN(a, by) == by = "Ratio" /\ a.Ratio.k = "nan"

\* row a may stand before row b (NaN keys go last, na_position='last')
InOrder(a, b, by, ascending) ==
    \/ KeyIsNaN(b, by)
    \/ /\ ~KeyIsNaN(a, by)
       /\ IF ascending THEN KeyLE(a, b, by) ELSE KeyLE(b, a, by)

\* DataFrame.sort_values(by, ascending=...) with the default kind='quicksort',
\* which is not stable: every arrangement in key order is an outcome, rows
\* with equal keys in any order.
sort_values(rows, by, ascending) ==
    {Permute(rows, p) : p \in
        {q \in Perms(Len(rows)) :
            \A i, j \in 1..Len(rows) :
                i < j => InOrder(rows[q[i]], rows[q[j]], by, ascending)}}

lev_symbols == {"SSO", "QLD", "UPRO", "TQQQ"}

inv_symbols == {"DOG", "PSQ", "SH", "SDS", "QID", "SQQQ", "SVIX"}

\* app.py:140
buy_lists(agg) ==
    {head(l, TopN) : l \in
        sort_values(SelectSeq(agg, LAMBDA r : FloatGT(r.BuyPct, PressureCut)),
                    "BuyVol", FALSE)}

\* app.py:145
sell_lists(agg) ==
    {head(l, TopN) : l \in
        sort_values(SelectSeq(agg, LAMBDA r : FloatGT(r.SellPct, PressureCut)),
                    "SellVol", FALSE)}

\* app.py:158-159
watch_lists(raw_agg, watch) ==
    sort_values(SelectSeq(raw_agg, LAMBDA r : r.Symbol \in watch),
                "Ratio", FALSE)

\* app.py:182: sorted(agg['Symbol'].unique())
chart_options(agg) == SortedSymbols(SymbolsIn(agg))

\* symbol_series sorted with ascending=False
symbol_series_Descending(full_data, selected_symbol) ==
    {[i \in 1..Len(l) |-> SeriesRow(l[i])] : l \in
        sort_values(SelectSeq(full_data, LAMBDA r : r.Symbol = selected_symbol),
                    "Date", FALSE)}

\* app.py:185-188
symbol_series(full_data, selected_symbol) ==
    {[i \in 1..Len(l) |-> SeriesRow(l[i])] : l \in
        sort_values(SelectSeq(full_data, LAMBDA r : r.Symbol = selected_symbol),
                    "Date", TRUE)}

NoSelection == ""

BlankView ==
    [shown |-> FALSE, buy_list |-> <<>>, sell_list |-> <<>>,
     lev_data |-> <<>>, inv_data |-> <<>>, options |-> <<>>,
     selected_symbol |-> NoSelection, symbol_data |-> <<>>]

---------------------------------------------------------------------------
(* The source feed: what one GET can answer *)

Response(raised, status_code, text) ==
    [raised |-> raised, status_code |-> status_code, text |-> text]

\* requests.get raising (timeout, connection error)
Raised == Response(TRUE, 0, <<>>)

NotFound == Response(FALSE, 404, <<>>)

Ok(text) == Response(FALSE, 200, text)

Line(sym, short, total) ==
    [Symbol |-> sym, ShortVolume |-> short, TotalVolume |-> total]

\* a file with a header: two symbols with the same short volume
TextA ==
    <<HeaderLine, Line("SSO", <<"3">>, <<"4">>), Line("XYZ", <<"3">>, <<"4">>)>>

\* a file without a header: a zero-volume row, a row with no selling, a
\* malformed cell
TextB ==
    <<Line("SH", <<"0">>, <<"0">>), Line("SSO", <<"1">>, <<"1">>),
      Line("XYZ", <<"x">>, <<"1">>)>>

\* a file with a header and a trailer row that has no symbol
TextC == <<HeaderLine, Line("SH", <<"2">>, <<"2">>), Line("", <<"1">>, <<>>)>>

\* a file with a header and no rows
TextEmpty == <<HeaderLine>>

FacilityTexts == {TextA, TextB, TextC, TextEmpty}

FacilityResponses == {Raised, NotFound} \cup {Ok(t) : t \in FacilityTexts}

Feed(cnms, fnyx, fnsq, fnqc) ==
    [f \in Range(Facilities) |->
        CASE f = "CNMS" -> cnms [] f = "FNYX" -> fnyx
          [] f = "FNSQ" -> fnsq [] OTHER -> fnqc]

\* the answers of one date the run specification chooses among
DayFeeds ==
    {Feed(Raised, NotFound, NotFound, Raised),
     Feed(Ok(TextEmpty), NotFound, NotFound, NotFound),
     Feed(Ok(TextB), Ok(TextB), NotFound, Raised),
     Feed(Ok(TextA), NotFound, Ok(TextC), Ok(TextEmpty))}

\* the cells and lines of the parser specification's files
Cells == {<<>>, <<"1", "2">>, <<"-", "3">>, <<"x">>}

SymbolCells == {"", "NA", "XYZ"}

Lines == {Line(s, a, b) : s \in SymbolCells, a \in Cells, b \in Cells}

\* a file of the parser specification: with or without the header row
ParserText(header, ls) == IF header THEN <<HeaderLine>> \o ls ELSE ls

Dates == 0..(MaxDay - 1)

\* IsTradingDay off by one: Saturday passes
IsTradingDay_WithSaturday(n) == weekday(n) < 6

\* app.py:96
IsTradingDay(n) == weekday(n) < 5

\* the values the sidebar widgets can hold
DefaultThreshold == 1000000

\* the values the user sets the threshold to
Thresholds == {0, 5}

DateRanges ==
    {<<a>> : a \in Dates} \cup
    {<<r[1], r[2]>> : r \in {q \in Dates \X Dates : q[1] <= q[2]}}

AllFail == Feed(Raised, NotFound, NotFound, Raised)

---------------------------------------------------------------------------
(* fetch_daily_components as one call: app.py:33-82 *)

FetchIdle ==
    /\ responses = AllFail
    /\ fetch_date = 0
    /\ fetch_done = FALSE
    /\ daily_frames = <<>>
    /\ daily_total = None

RunIdle ==
    /\ date_range = <<0, MaxDay - 1>>
    /\ vol_threshold = DefaultThreshold
    /\ pc = "idle"
    /\ clicked = FALSE
    /\ current_date = 0
    /\ day_count = 0
    /\ all_daily_totals = <<>>
    /\ fetch_calls = <<>>
    /\ session_state = EmptySession
    /\ view = BlankView

InitFetch ==
    /\ \/ /\ responses \in [Range(Facilities) -> FacilityResponses]
          /\ fetch_date \in {n \in Dates : IsTradingDay(n)}
       \/ /\ \E k \in 0..MaxLines : \E ls \in [1..k -> Lines] :
                \E header \in BOOLEAN :
                    responses = Feed(NotFound, Raised,
                                     Ok(ParserText(header, ls)), NotFound)
          /\ fetch_date = 0
    /\ fetch_done = FALSE
    /\ daily_frames = <<>>
    /\ daily_total = None
    /\ RunIdle

CallFetch ==
    /\ ~fetch_done
    /\ daily_frames' = CollectFrames(responses, 1)
    /\ daily_total' = fetch_daily_components(responses, strftime_compact(fetch_date))
    /\ fetch_done' = TRUE
    /\ UNCHANGED <<responses, fetch_date>>
    /\ UNCHANGED runVars

NextFetch == CallFetch

SpecFetch == InitFetch /\ [][NextFetch]_vars

---------------------------------------------------------------------------
(* The script: app.py:84-208 *)

Init == FetchIdle /\ RunIdle

\* a widget changes (or the page reloads): the script runs with the button
\* not pressed, app.py:86 is skipped and the locals of app.py:87-93 do not exist
ChangeInputs ==
    /\ pc = "idle"
    /\ \E dr \in DateRanges, thr \in Thresholds :
        /\ date_range' = dr
        /\ vol_threshold' = thr
    /\ clicked' = FALSE
    /\ current_date' = 0
    /\ day_count' = 0
    /\ all_daily_totals' = <<>>
    /\ fetch_calls' = <<>>
    /\ view' = BlankView
    /\ pc' = "render"
    /\ UNCHANGED session_state
    /\ UNCHANGED fetchVars

\* "Run Analysis" pressed: app.py:84-93
ClickRun ==
    /\ pc = "idle"
    /\ Len(date_range) = 2
    /\ clicked' = TRUE
    /\ all_daily_totals' = <<>>
    /\ current_date' = date_range[1]
    /\ day_count' = 0
    /\ fetch_calls' = <<>>
    /\ view' = BlankView
    /\ pc' = "loop"
    /\ UNCHANGED <<date_range, vol_threshold, session_state>>
    /\ UNCHANGED fetchVars

\* one iteration of app.py:95-105 on a weekday
LoopWeekday ==
    /\ pc = "loop"
    /\ current_date <= date_range[2]
    /\ IsTradingDay(current_date)
    /\ \E resps \in DayFeeds :
        LET date_str == strftime_compact(current_date)
            df       == fetch_daily_components(resps, date_str)
        IN  /\ fetch_calls' = Append(fetch_calls, date_str)
            /\ all_daily_totals' =
                 IF ~df.none THEN Append(all_daily_totals, df)
                 ELSE all_daily_totals
    /\ current_date' = current_date + 1
    /\ day_count' = day_count + 1
    /\ UNCHANGED <<date_range, vol_threshold, pc, clicked, session_state, view>>
    /\ UNCHANGED fetchVars

\* one iteration of app.py:95-105 on a Saturday or Sunday
LoopWeekend ==
    /\ pc = "loop"
    /\ current_date <= date_range[2]
    /\ ~IsTradingDay(current_date)
    /\ current_date' = current_date + 1
    /\ day_count' = day_count + 1
    /\ UNCHANGED <<date_range, vol_threshold, pc, clicked, all_daily_totals,
                   fetch_calls, session_state, view>>
    /\ UNCHANGED fetchVars

\* the loop has ended: app.py:107-129
StoreRun ==
    /\ pc = "loop"
    /\ current_date > date_range[2]
    /\ session_state' = StoreResults(session_state, all_daily_totals, vol_threshold)
    /\ pc' = "render"
    /\ UNCHANGED <<date_range, vol_threshold, clicked, current_date, day_count,
                   all_daily_totals, fetch_calls, view>>
    /\ UNCHANGED fetchVars

\* app.py:131-188 when its two conditions hold
RenderResults ==
    LET agg       == session_state.agg_data.rows
        raw_agg   == session_state.raw_agg.rows
        full_data == session_state.full_data.rows
        options   == chart_options(agg)
    IN  \E bl \in buy_lists(agg), sl \in sell_lists(agg),
           lev \in watch_lists(raw_agg, lev_symbols),
           inv \in watch_lists(raw_agg, inv_symbols),
           sel \in IF options = <<>> THEN {NoSelection} ELSE Range(options) :
          \E series \in IF sel = NoSelection THEN {<<>>}
                        ELSE symbol_series(full_data, sel) :
            view' = [shown |-> TRUE, buy_list |-> bl, sell_list |-> sl,
                     lev_data |-> lev, inv_data |-> inv, options |-> options,
                     selected_symbol |-> sel, symbol_data |-> series]

\* the rest of the script: app.py:84, 131-208
Render ==
    /\ pc = "render"
    /\ IF Len(date_range) = 2 /\ session_state.agg_data.set
       THEN RenderResults
       ELSE view' = BlankView
    /\ pc' = "idle"
    /\ UNCHANGED <<date_range, vol_threshold, clicked, current_date, day_count,
                   all_daily_totals, fetch_calls, session_state>>
    /\ UNCHANGED fetchVars

Next ==
    \/ ChangeInputs
    \/ ClickRun
    \/ LoopWeekday
    \/ LoopWeekend
    \/ StoreRun
    \/ Render

Spec == Init /\ [][Next]_vars

---------------------------------------------------------------------------
(* Reference computations the properties compare the code with *)

\* the data lines of a delivered file, whichever way it was read
DataLines(text) ==
    IF Head(text).Symbol = "Symbol" THEN Tail(text) ELSE text

Delivered == {f \in Range(Facilities) : Delivers(responses[f])}

\* the sum of one column of one symbol over the data lines of one facility
FacilitySum(f, sym, col) ==
    IF f \notin Delivered THEN 0
    ELSE LET ls == SelectSeq(DataLines(responses[f].text),
                             LAMBDA l : l.Symbol = sym)
         IN  SumSeq([i \in 1..Len(ls) |-> NumericColumn(ls[i][col])])

ExpectedDaily(sym, col) ==
    SumSeq([i \in 1..Len(Facilities) |-> FacilitySum(Facilities[i], sym, col)])

DeliveredSymbols ==
    UNION {{l.Symbol : l \in Range(DataLines(responses[f].text))} : f \in Delivered}
        \ NaValues

RunRows == Flatten([i \in 1..Len(all_daily_totals) |-> all_daily_totals[i].rows])

RangeTotal(rows, sym, col) ==
    LET mine == SelectSeq(rows, LAMBDA r : r.Symbol = sym)
    IN  SumSeq([i \in 1..Len(mine) |-> mine[i][col]])

IsWeekend(n) == weekday(n) = 5 \/ weekday(n) = 6

RECURSIVE WeekdaysBetween(_, _)
WeekdaysBetween(a, b) ==
    IF a > b THEN <<>>
    ELSE (IF IsWeekend(a) THEN <<>> ELSE <<a>>) \o WeekdaysBetween(a + 1, b)

\* the calendar day a 'YYYY-MM-DD' string names, as one comparable number
Chrono(date) ==
    ParseNat(SubSeq(date, 1, 4)) * 10000 + ParseNat(SubSeq(date, 6, 7)) * 100
        + ParseNat(SubSeq(date, 9, 10))

RunFinished == clicked /\ pc = "idle"

RunStored == RunFinished /\ all_daily_totals # <<>>

---------------------------------------------------------------------------
(* C1 *)

\* C1: the daily total fetch_daily_components returns holds, for each symbol,
\* the arithmetic sum of that symbol's ShortVolume and TotalVolume over exactly
\* the facilities that answered 200 and parsed; a failed facility adds nothing
\* and stops no other; merging the frames in any order gives the same result.
C1_DailyTotalIsSumOverDelivered ==
    fetch_done =>
        /\ Len(daily_frames) = Cardinality(Delivered)
        /\ daily_total.none <=> (Delivered = {})
        /\ SymbolsIn(daily_total.rows) = DeliveredSymbols
        /\ \A i \in 1..Len(daily_total.rows) :
             LET r == daily_total.rows[i]
             IN  /\ r.ShortVolume = ExpectedDaily(r.Symbol, "ShortVolume")
                 /\ r.TotalVolume = ExpectedDaily(r.Symbol, "TotalVolume")
        /\ \A i, j \in 1..Len(daily_total.rows) :
             i # j => daily_total.rows[i].Symbol # daily_total.rows[j].Symbol
        /\ \A p \in Perms(Len(daily_frames)) :
             CombineFrames(Permute(daily_frames, p), strftime_compact(fetch_date))
                 = daily_total

\* two facilities delivered rows for one symbol, another facility failed
C1_Witness ==
    /\ fetch_done
    /\ Cardinality(Delivered) >= 2
    /\ Cardinality(Delivered) < Len(Facilities)
    /\ \E i \in 1..Len(daily_total.rows) :
         /\ daily_total.rows[i].TotalVolume > 2
         /\ \E f, g \in Delivered :
              /\ f # g
              /\ FacilitySum(f, daily_total.rows[i].Symbol, "TotalVolume") > 0
              /\ FacilitySum(g, daily_total.rows[i].Symbol, "TotalVolume") > 0

---------------------------------------------------------------------------
(* C8 *)

\* C8: every row retained by the parser carries non-negative integer
\* ShortVolume and TotalVolume, whatever the cells of the file contained.
C8_ParsedVolumesNonNegative ==
    fetch_done =>
        \A k \in 1..Len(daily_frames) : \A i \in 1..Len(daily_frames[k]) :
            /\ daily_frames[k][i].ShortVolume >= 0
            /\ daily_frames[k][i].TotalVolume >= 0

---------------------------------------------------------------------------
(* C2 *)

CompactDates(days) == [i \in 1..Len(days) |-> strftime_compact(days[i])]

DashedDates(days) ==
    {strftime_dashed(DateOf(days[i])) : i \in 1..Len(days)}

\* C2: for every range start <= end the loop calls fetch_daily_components for
\* no Saturday or Sunday and exactly once, in order, for every weekday of the
\* closed range; the range aggregate of a symbol is the sum of the weekday
\* daily totals of that symbol and nothing else.
C2_WeekdaysOnly ==
    clicked =>
        LET start  == date_range[1]
            end    == date_range[2]
            passed == WeekdaysBetween(start, current_date - 1)
        IN  /\ fetch_calls = CompactDates(passed)
            /\ \A i \in 1..Len(fetch_calls) : \A n \in Dates :
                 IsWeekend(n) => fetch_calls[i] # strftime_compact(n)
            /\ \A i \in 1..Len(RunRows) :
                 RunRows[i].Date \in DashedDates(passed)
            /\ pc # "loop" => current_date = end + 1
            /\ RunStored =>
                 /\ SymbolsIn(session_state.raw_agg.rows) = SymbolsIn(RunRows)
                 /\ \A i \in 1..Len(session_state.raw_agg.rows) :
                      LET r == session_state.raw_agg.rows[i]
                      IN  /\ r.ShortVolume =
                               RangeTotal(RunRows, r.Symbol, "ShortVolume")
                          /\ r.TotalVolume =
                               RangeTotal(RunRows, r.Symbol, "TotalVolume")

\* a finished run over Friday .. Monday that got data on both weekdays
C2_Witness ==
    /\ RunStored
    /\ date_range = <<0, 3>>
    /\ Len(fetch_calls) = 2
    /\ Len(all_daily_totals) = 2
    /\ \E i \in 1..Len(session_state.raw_agg.rows) :
         session_state.raw_agg.rows[i].TotalVolume = 8

---------------------------------------------------------------------------
(* C3 *)

\* C3: when every fetch of the run failed, the run ends with the empty-range
\* signal, told apart from results whose rows the threshold filtered out: the
\* page does not present result tables for it.
C3_EmptyRangeSignalled ==
    (RunFinished /\ all_daily_totals = <<>>) => ~view.shown

---------------------------------------------------------------------------
(* C4 *)

\* ratio is the finite quotient buy / sell, with 0.0001 for a zero sell
RatioDefined(short, total, ratio) ==
    (short >= 0 /\ total >= 0) =>
        /\ IsFinite(ratio)
        /\ ratio.d > 0
        /\ IF total - short = 0
           THEN ratio.n = short * 10000 * ratio.d
           ELSE ratio.n * (total - short) = short * ratio.d

\* C4: for non-negative integer ShortVolume and TotalVolume the Buy/Sell Ratio
\* of the filtered summary, of the unfiltered summary and of a per-day series
\* row is a finite number: the quotient by 0.0001 when the sell volume is 0,
\* by the sell volume otherwise.
C4_RatioFinite ==
    /\ \A i \in 1..Len(session_state.agg_data.rows) :
         LET r == session_state.agg_data.rows[i]
         IN  RatioDefined(r.ShortVolume, r.TotalVolume, r.Ratio)
    /\ \A i \in 1..Len(session_state.raw_agg.rows) :
         LET r == session_state.raw_agg.rows[i]
         IN  RatioDefined(r.ShortVolume, r.TotalVolume, r.Ratio)
    /\ \A i \in 1..Len(view.symbol_data) :
         LET r == view.symbol_data[i]
         IN  RatioDefined(r.ShortVolume, r.TotalVolume, r.Ratio)

\* a summary with a zero-volume row and a row sold out (short = total > 0),
\* and a charted day with a zero sell volume
C4_Witness ==
    /\ \E i, j \in 1..Len(session_state.agg_data.rows) :
         /\ session_state.agg_data.rows[i].TotalVolume = 0
         /\ session_state.agg_data.rows[j].TotalVolume > 0
         /\ session_state.agg_data.rows[j].SellVol = 0
    /\ \E i \in 1..Len(session_state.raw_agg.rows) :
         session_state.raw_agg.rows[i].TotalVolume = 0
    /\ \E i \in 1..Len(view.symbol_data) : view.symbol_data[i].Sell = 0

---------------------------------------------------------------------------
(* C5 *)

IsZero(x) == IsFinite(x) /\ x.n = 0

\* C5: a summary row whose TotalVolume is 0 has BuyPct = 0 and SellPct = 0.
C5_PctZeroWhenNoVolume ==
    \A i \in 1..Len(session_state.agg_data.rows) :
        LET r == session_state.agg_data.rows[i]
        IN  r.TotalVolume = 0 => IsZero(r.BuyPct) /\ IsZero(r.SellPct)

---------------------------------------------------------------------------
(* C6 *)

\* C6: after a run, a symbol whose range TotalVolume is below the threshold
\* is in neither the top-buy list, the top-sell list nor the chart choices;
\* every watchlist symbol with a daily row in the range is in its ETF table.
C6_ThresholdAndWatchlist ==
    (RunStored /\ view.shown) =>
        /\ \A s \in SymbolsIn(RunRows) :
             RangeTotal(RunRows, s, "TotalVolume") < vol_threshold =>
                 /\ s \notin SymbolsIn(view.buy_list)
                 /\ s \notin SymbolsIn(view.sell_list)
                 /\ s \notin Range(view.options)
        /\ \A s \in SymbolsIn(RunRows) \cap lev_symbols :
             s \in SymbolsIn(view.lev_data)
        /\ \A s \in SymbolsIn(RunRows) \cap inv_symbols :
             s \in SymbolsIn(view.inv_data)

\* a watched symbol below the threshold is in its ETF table while another
\* symbol passed the threshold into the top-buy list
C6_Witness ==
    /\ RunStored
    /\ view.shown
    /\ vol_threshold = 5
    /\ "SH" \in SymbolsIn(view.inv_data)
    /\ "SH" \notin Range(view.options)
    /\ view.buy_list # <<>>

---------------------------------------------------------------------------
(* C7 *)

\* C7: in the top-buy and the top-sell list two rows with equal sort key stand
\* in ascending symbol order.
C7_TiesBySymbol ==
    view.shown =>
        /\ \A i, j \in 1..Len(view.buy_list) :
             (i < j /\ view.buy_list[i].BuyVol = view.buy_list[j].BuyVol) =>
                 SymbolLess(view.buy_list[i].Symbol, view.buy_list[j].Symbol)
        /\ \A i, j \in 1..Len(view.sell_list) :
             (i < j /\ view.sell_list[i].SellVol = view.sell_list[j].SellVol) =>
                 SymbolLess(view.sell_list[i].Symbol, view.sell_list[j].Symbol)

---------------------------------------------------------------------------
(* C9 *)

DailyRow(r) ==
    [Symbol |-> r.Symbol, ShortVolume |-> r.ShortVolume,
     TotalVolume |-> r.TotalVolume, Date |-> r.Date]

\* C9: the series of the selected symbol holds exactly the stored daily-total
\* rows of that symbol, one row per date at most, in ascending date order,
\* and the stored collection is what the run stored.
C9_SeriesOfSymbol ==
    (pc = "idle" /\ view.shown /\ view.selected_symbol # NoSelection) =>
        LET series == view.symbol_data
            full   == session_state.full_data.rows
            mine   == SelectSeq(full, LAMBDA r : r.Symbol = view.selected_symbol)
        IN  /\ Len(series) = Len(mine)
            /\ {DailyRow(series[i]) : i \in 1..Len(series)} = Range(mine)
            /\ \A i, j \in 1..Len(series) :
                 i < j => Chrono(series[i].Date) < Chrono(series[j].Date)
            /\ RunStored => full = RunRows

\* a charted symbol with rows on two dates
C9_Witness ==
    /\ pc = "idle"
    /\ view.shown
    /\ Len(view.symbol_data) >= 2
    /\ RunStored

---------------------------------------------------------------------------
(* C10 *)

LoopEnded == pc = "loop" /\ current_date > date_range[2]

AllSet(session) ==
    session.full_data.set /\ session.agg_data.set /\ session.raw_agg.set

\* the three stored values come from one collection of daily totals
SameRun(session) ==
    LET agg == GroupSum(session.full_data.rows)
    IN  /\ session.raw_agg.rows = RawAgg(agg)
        /\ \E t \in Thresholds \cup {DefaultThreshold} :
             session.agg_data.rows = FilteredAgg(agg, t)

\* C10 as claimed: a run that retrieved no daily row leaves full_data,
\* agg_data and raw_agg as they were.
C10_NoRowsKeepsSession ==
    [][(LoopEnded /\ RunRows = <<>>) => session_state' = session_state]_vars

\* C10 as amended: full_data, agg_data and raw_agg are all absent or all
\* derived from one run; a run ends by storing its own results when at least
\* one fetch_daily_components call returned a frame (with or without rows)
\* and by leaving the three unchanged when every call returned None.
C10_SessionFromLastFrameRun ==
    /\ [](session_state = EmptySession
            \/ (AllSet(session_state) /\ SameRun(session_state)))
    /\ [][LoopEnded =>
            IF all_daily_totals = <<>>
            THEN session_state' = session_state
            ELSE /\ AllSet(session_state')
                 /\ session_state'.full_data.rows = RunRows
                 /\ session_state'.agg_data.rows =
                      FilteredAgg(GroupSum(RunRows), vol_threshold)
                 /\ session_state'.raw_agg.rows = RawAgg(GroupSum(RunRows))]_vars

\* a second run of which every call returned None ended and the results of
\* the first run are presented
C10_Witness ==
    /\ RunFinished
    /\ all_daily_totals = <<>>
    /\ fetch_calls # <<>>
    /\ view.shown
    /\ session_state.full_data.rows # <<>>

=============================================================================
